---- MODULE Spec2Model ----
(***************************************************************************)
(* logqtt: journald -> MQTT shipper.                                       *)
(*                                                                         *)
(* The model covers                                                        *)
(*   - the journal adapter (src/src/journal.rs): recv, try_recv and the    *)
(*     field mapping entry_to_log_item;                                    *)
(*   - the publish client (src/src/client.rs): push;                       *)
(*   - the binary (src/src/bin/jqtt.rs): the foreground loop of main, the  *)
(*     signal listener thread and the connection-event thread.             *)
(*                                                                         *)
(* Text that the code parses (PRIORITY, _SOURCE_REALTIME_TIMESTAMP) is a   *)
(* sequence of one-character strings; numbers that do not fit TLC's        *)
(* integers (u64 microseconds) are sequences of decimal digits without     *)
(* leading zeros.  Other text is a TLA+ string.                            *)
(***************************************************************************)
EXTENDS Integers, Sequences, FiniteSets, TLC

(***************************************************************************)
(* Bounds of the model                                                     *)
(***************************************************************************)
\* entries the environment appends to the journal during one run
MaxEntries == 3

\* the counters of foreground operations performed after the shutdown flag
\* was cleared saturate here
CountCap == 2

(***************************************************************************)
(* Option values                                                           *)
(***************************************************************************)
None == [some |-> FALSE]

Some(x) == [some |-> TRUE, v |-> x]

(***************************************************************************)
(* lib.rs: LogLevel and its lowercase name                                 *)
(***************************************************************************)
LogLevel ==
    {"Emergency", "Alert", "Critical", "Error", "Warning", "Notice", "Info", "Debug"}

as_ref(level) ==
    CASE level = "Emergency" -> "emergency"
      [] level = "Alert"     -> "alert"
      [] level = "Critical"  -> "critical"
      [] level = "Error"     -> "error"
      [] level = "Warning"   -> "warning"
      [] level = "Notice"    -> "notice"
      [] level = "Info"      -> "info"
      [] level = "Debug"     -> "debug"

(***************************************************************************)
(* Decimal parsing: str::parse::<usize>() and str::parse::<u64>()          *)
(***************************************************************************)
DigitChars == <<"0", "1", "2", "3", "4", "5", "6", "7", "8", "9">>

IsDigit(c) == \E d \in 1..10 : DigitChars[d] = c

DigitOf(c) == (CHOOSE d \in 1..10 : DigitChars[d] = c) - 1

RECURSIVE StripZeros(_)
StripZeros(ds) ==
    IF Len(ds) > 1 /\ ds[1] = 0 THEN StripZeros(Tail(ds)) ELSE ds

RECURSIVE DigitsLess(_, _)
\* a < b for digit sequences without leading zeros
DigitsLess(a, b) ==
    IF Len(a) # Len(b) THEN Len(a) < Len(b)
    ELSE IF Len(a) = 0 THEN FALSE
    ELSE IF a[1] # b[1] THEN a[1] < b[1]
    ELSE DigitsLess(Tail(a), Tail(b))

\* u64::MAX = usize::MAX = 18446744073709551615 (64-bit target)
U64Max == <<1, 8, 4, 4, 6, 7, 4, 4, 0, 7, 3, 7, 0, 9, 5, 5, 1, 6, 1, 5>>

\* the digits of a well-formed numeral, checked against the type's maximum
ParseDigits(body) ==
    IF Len(body) > 0 /\ (\A i \in 1..Len(body) : IsDigit(body[i]))
          /\ ~DigitsLess(U64Max, StripZeros([i \in 1..Len(body) |-> DigitOf(body[i])]))
    THEN [ok |-> TRUE, digits |-> StripZeros([i \in 1..Len(body) |-> DigitOf(body[i])])]
    ELSE [ok |-> FALSE]

\* parse of an unsigned integer type: an optional "+", then one or more
\* decimal digits, nothing else (no "-", no blanks); a value above the
\* type's maximum is an error
ParseUnsigned(v) ==
    ParseDigits(IF Len(v) > 0 /\ v[1] = "+" THEN Tail(v) ELSE v)

RECURSIVE NatDigits(_)
\* the decimal digits of a natural number
NatDigits(n) ==
    IF n < 10 THEN <<n>> ELSE Append(NatDigits(n \div 10), n % 10)

RECURSIVE DigitsNat(_)
\* the natural number of a (short) digit sequence
DigitsNat(ds) ==
    IF Len(ds) = 0 THEN 0
    ELSE 10 * DigitsNat(SubSeq(ds, 1, Len(ds) - 1)) + ds[Len(ds)]

\* slice.get(index): None when the index is out of range
SliceGet(slice, digits) ==
    IF DigitsLess(digits, NatDigits(Len(slice)))
    THEN Some(slice[DigitsNat(digits) + 1])
    ELSE None

(***************************************************************************)
(* journal.rs: the priority table and the field mapping                    *)
(***************************************************************************)
\* the table with Warning and Notice in each other's place
systemd_priority_rankings_swapped ==
    <<"Emergency", "Alert", "Critical", "Error", "Notice", "Warning", "Info", "Debug">>

systemd_priority_rankings ==
    <<"Emergency", "Alert", "Critical", "Error", "Warning", "Notice", "Info", "Debug">>

\* A point in time: microseconds before or after the Unix epoch.
TimeAt(digits) == [before_epoch |-> FALSE, micros |-> digits]

TimeBefore(digits) == [before_epoch |-> TRUE, micros |-> digits]

\* UNIX_EPOCH.checked_add(Duration::from_micros(u64)): a SystemTime holds
\* 64-bit signed seconds, so every u64 count of microseconds fits
checked_add_micros(digits) == Some(TimeAt(digits))

EmptyFields ==
    [hostname |-> None, unit |-> None, message |-> None,
     timestamp |-> None, priority |-> None]

Failed(text, value) == [ok |-> FALSE, err |-> [text |-> text, value |-> value]]

\* PRIORITY: index the table with the parsed value
PriorityField(acc, v, p) ==
    IF ~p.ok THEN Failed("failed to parse priority: ", v)
    ELSE IF ~SliceGet(systemd_priority_rankings, p.digits).some
    THEN Failed("invalid journal entry priority: ", v)
    ELSE [ok |-> TRUE,
          acc |-> [acc EXCEPT !.priority =
                      SliceGet(systemd_priority_rankings, p.digits)]]

\* _SOURCE_REALTIME_TIMESTAMP: the epoch plus the parsed microseconds
TimestampField(acc, v, p) ==
    IF ~p.ok THEN Failed("failed to parse timestamp: ", v)
    ELSE IF ~checked_add_micros(p.digits).some THEN Failed("time overflow", <<>>)
    ELSE [ok |-> TRUE, acc |-> [acc EXCEPT !.timestamp = checked_add_micros(p.digits)]]

\* the match on the key with an arm that refuses a key it does not know
MapFieldRefusesUnknown(acc, k, v) ==
    CASE k = "MESSAGE" -> [ok |-> TRUE, acc |-> [acc EXCEPT !.message = Some(v)]]
      [] k = "PRIORITY" -> PriorityField(acc, v, ParseUnsigned(v))
      [] k = "_SYSTEMD_UNIT" -> [ok |-> TRUE, acc |-> [acc EXCEPT !.unit = Some(v)]]
      [] k = "_SOURCE_REALTIME_TIMESTAMP" -> TimestampField(acc, v, ParseUnsigned(v))
      [] k = "_HOSTNAME" -> [ok |-> TRUE, acc |-> [acc EXCEPT !.hostname = Some(v)]]
      [] OTHER -> Failed("unknown field: ", <<>>)

\* one arm of the match on the key; the `?` arms leave the function
MapField(acc, k, v) ==
    CASE k = "MESSAGE" -> [ok |-> TRUE, acc |-> [acc EXCEPT !.message = Some(v)]]
      [] k = "PRIORITY" -> PriorityField(acc, v, ParseUnsigned(v))
      [] k = "_SYSTEMD_UNIT" -> [ok |-> TRUE, acc |-> [acc EXCEPT !.unit = Some(v)]]
      [] k = "_SOURCE_REALTIME_TIMESTAMP" -> TimestampField(acc, v, ParseUnsigned(v))
      [] k = "_HOSTNAME" -> [ok |-> TRUE, acc |-> [acc EXCEPT !.hostname = Some(v)]]
      [] OTHER -> [ok |-> TRUE, acc |-> acc]

\* the rest of the for loop once the pair before it is mapped
RECURSIVE MapFields(_, _, _)
MapRest(entry, i, r) ==
    IF ~r.ok THEN r ELSE MapFields(entry, i + 1, r.acc)

\* the for loop over the entry's key/value pairs, from pair i on
MapFields(entry, i, acc) ==
    IF i > Len(entry) THEN [ok |-> TRUE, acc |-> acc]
    ELSE MapRest(entry, i, MapField(acc, entry[i][1], entry[i][2]))

\* BuildLogItem with a default for the hostname, as for the unit
BuildLogItemDefaultsHostname(r, now) ==
    IF ~r.ok THEN r
    ELSE IF ~r.acc.priority.some
         THEN Failed("missing priority field from journal entry", <<>>)
    ELSE IF ~r.acc.message.some
         THEN Failed("missing message field from journal entry", <<>>)
    ELSE [ok |-> TRUE,
          item |-> [hostname  |-> IF r.acc.hostname.some THEN r.acc.hostname.v
                                  ELSE "unknown",
                    unit      |-> IF r.acc.unit.some THEN r.acc.unit.v ELSE "unknown",
                    level     |-> r.acc.priority.v,
                    message   |-> r.acc.message.v,
                    timestamp |-> IF r.acc.timestamp.some THEN r.acc.timestamp.v ELSE now]]

\* BuildLogItem leaving the unit empty when the entry has none
BuildLogItemEmptyUnit(r, now) ==
    IF ~r.ok THEN r
    ELSE IF ~r.acc.hostname.some
         THEN Failed("missing hostname field from jounral entry", <<>>)
    ELSE IF ~r.acc.priority.some
         THEN Failed("missing priority field from journal entry", <<>>)
    ELSE IF ~r.acc.message.some
         THEN Failed("missing message field from journal entry", <<>>)
    ELSE [ok |-> TRUE,
          item |-> [hostname  |-> r.acc.hostname.v,
                    unit      |-> IF r.acc.unit.some THEN r.acc.unit.v ELSE "",
                    level     |-> r.acc.priority.v,
                    message   |-> r.acc.message.v,
                    timestamp |-> IF r.acc.timestamp.some THEN r.acc.timestamp.v ELSE now]]

\* Ok(LogItem { ... }): the `?` on a missing required field leaves the function
BuildLogItem(r, now) ==
    IF ~r.ok THEN r
    ELSE IF ~r.acc.hostname.some
         THEN Failed("missing hostname field from jounral entry", <<>>)
    ELSE IF ~r.acc.priority.some
         THEN Failed("missing priority field from journal entry", <<>>)
    ELSE IF ~r.acc.message.some
         THEN Failed("missing message field from journal entry", <<>>)
    ELSE [ok |-> TRUE,
          item |-> [hostname  |-> r.acc.hostname.v,
                    unit      |-> IF r.acc.unit.some THEN r.acc.unit.v ELSE "unknown",
                    level     |-> r.acc.priority.v,
                    message   |-> r.acc.message.v,
                    timestamp |-> IF r.acc.timestamp.some THEN r.acc.timestamp.v ELSE now]]

\* entry_to_log_item(entry); now is the value of SystemTime::now()
entry_to_log_item(entry, now) ==
    BuildLogItem(MapFields(entry, 1, EmptyFields), now)

(***************************************************************************)
(* The journal: a cursor over the entries written so far                   *)
(***************************************************************************)
\* Journal::next_entry(): Err on a read failure (fails), Ok(Some(entry)) and
\* the cursor moved past that entry when one is pending, Ok(None) otherwise.
\* index is the position of the entry handed out (0: none).
next_entry(j, fails) ==
    IF fails
    THEN [err |-> TRUE, entry |-> None, index |-> 0, journal |-> j]
    ELSE IF j.cursor < Len(j.entries)
    THEN [err |-> FALSE, entry |-> Some(j.entries[j.cursor + 1]),
          index |-> j.cursor + 1, journal |-> [j EXCEPT !.cursor = @ + 1]]
    ELSE [err |-> FALSE, entry |-> None, index |-> 0, journal |-> j]

NotReady == [kind |-> "NotReady"]

Closed == [kind |-> "Closed"]

Recoverable(context, cause) ==
    [kind |-> "Recoverable", context |-> context, cause |-> cause]

Fatal(context, cause) == [kind |-> "Fatal", context |-> context, cause |-> cause]

Ok(item) == [kind |-> "Ok", item |-> item]

\* the mapping of the entry read, as a try_recv result
MapResult(m) == IF m.ok THEN Ok(m.item) ELSE Recoverable(m.err, None)

\* the match on the result n of next_entry
TryRecvMatch(n, now) ==
    IF n.err
    THEN [result |-> Fatal([text |-> "failed to read from journal", value |-> <<>>],
                           Some("io error")),
          journal |-> n.journal, index |-> n.index]
    ELSE IF n.entry.some
    THEN [result |-> MapResult(entry_to_log_item(n.entry.v, now)),
          journal |-> n.journal, index |-> n.index]
    ELSE [result |-> NotReady, journal |-> n.journal, index |-> n.index]

\* try_recv asking the journal twice: once to look, once to read
try_recv_reads_twice(j, fails, now) ==
    TryRecvMatch(next_entry(next_entry(j, fails).journal, fails), now)

\* JournalAdapter::try_recv
try_recv(j, fails, now) == TryRecvMatch(next_entry(j, fails), now)

\* Journal::await_next_entry(None): the pending entry, None after a wake-up
\* that brought no entry, or the read error
await_next_entry(j, fails) == next_entry(j, fails)

\* the match in recv treating "no entry yet" as the end of the journal
RecvMatchClosedOnEmpty(n, now) ==
    IF n.err
    THEN [pc |-> "idle",
          result |-> Fatal([text |-> "failed to read from journal", value |-> <<>>],
                           Some("io error"))]
    ELSE IF n.entry.some
    THEN [pc |-> "idle", result |-> MapResult(entry_to_log_item(n.entry.v, now))]
    ELSE [pc |-> "idle", result |-> Closed]

\* JournalAdapter::recv, one turn of its loop on the result n of
\* await_next_entry: return (pc "idle") or sleep and go round again
RecvMatch(n, now) ==
    IF n.err
    THEN [pc |-> "idle",
          result |-> Fatal([text |-> "failed to read from journal", value |-> <<>>],
                           Some("io error"))]
    ELSE IF n.entry.some
    THEN [pc |-> "idle", result |-> MapResult(entry_to_log_item(n.entry.v, now))]
    ELSE [pc |-> "sleep", result |-> [kind |-> "None"]]

(***************************************************************************)
(* client.rs: push                                                         *)
(***************************************************************************)
\* --base-topic, default value
base_topic == "logqttv1"

\* the distance from the epoch whichever side of it the time lies
payload_timestamp_distance(timestamp) == timestamp.micros

\* log_item.timestamp.duration_since(UNIX_EPOCH) ... as_micros(), or 0
payload_timestamp(timestamp) ==
    IF ~timestamp.before_epoch THEN timestamp.micros ELSE <<0>>

\* push with the unit ahead of the hostname in the topic
push_unit_first(base, item, accepted) ==
    [ok |-> accepted,
     publish |-> [topic |-> base \o "/" \o item.unit \o "/" \o item.hostname
                               \o "/" \o as_ref(item.level),
                  qos |-> "AtLeastOnce", retain |-> FALSE,
                  payload |-> [message |-> item.message,
                               timestamp |-> payload_timestamp(item.timestamp)]]]

\* LogqttClient::push: the topic and payload it builds and the outcome of
\* client.publish (accepted: the request was enqueued on the connection)
push(base, item, accepted) ==
    [ok |-> accepted,
     publish |-> [topic |-> base \o "/" \o item.hostname \o "/" \o item.unit
                               \o "/" \o as_ref(item.level),
                  qos |-> "AtLeastOnce", retain |-> FALSE,
                  payload |-> [message |-> item.message,
                               timestamp |-> payload_timestamp(item.timestamp)]]]

(***************************************************************************)
(* Raw journal entries.  A JournalRecord is a BTreeMap<String, String>:    *)
(* its pairs are visited in the order of the keys.                         *)
(***************************************************************************)
Pair(k, opt) == IF opt.some THEN << <<k, opt.v>> >> ELSE <<>>

Entry(message, priority, hostname, pid, timestamp, unit) ==
    Pair("MESSAGE", message) \o Pair("PRIORITY", priority)
        \o Pair("_HOSTNAME", hostname) \o Pair("_PID", pid)
        \o Pair("_SOURCE_REALTIME_TIMESTAMP", timestamp)
        \o Pair("_SYSTEMD_UNIT", unit)

ScenarioTimestamp ==
    <<"1", "7", "0", "0", "0", "0", "0", "0", "0", "0", "0", "0", "0", "0", "0", "0">>

PriorityTexts ==
    { <<"0">>, <<"1">>, <<"2">>, <<"3">>, <<"4">>, <<"5">>, <<"6">>, <<"7">>,
      <<"8">>, <<"1", "0">>, <<"0", "3">>, <<"+", "3">>,
      <<"-", "1">>, <<" ", "3">>, <<"x">>, <<>>,
      <<"1", "8", "4", "4", "6", "7", "4", "4", "0", "7", "3", "7", "0", "9", "5",
        "5", "1", "6", "1", "6">> }

TimestampTexts == { ScenarioTimestamp, <<"0">>, <<"1", "2", "u", "s">> }

Opt(S) == {None} \cup {Some(x) : x \in S}

\* the entries the adapter is exercised on
RawEntries ==
    { Entry(m, p, h, x, t, u) :
        m \in Opt({"disk full"}), p \in Opt(PriorityTexts), h \in Opt({"host1"}),
        x \in Opt({"4711"}), t \in Opt(TimestampTexts), u \in Opt({"diskd.service"}) }

ScenarioEntry ==
    Entry(Some("disk full"), Some(<<"3">>), Some("host1"), None,
          Some(ScenarioTimestamp), Some("diskd.service"))

\* the entries written to the journal while the daemon runs
JournalEntries ==
    { ScenarioEntry,
      Entry(Some("started"), Some(<<"6">>), Some("host1"), Some("4711"), None, None),
      Entry(Some("no host"), Some(<<"3">>), None, None, None, Some("diskd.service")) }

\* values of SystemTime::now() while the daemon runs
NowValues == { TimeAt(<<4, 2>>), TimeAt(<<4, 3>>) }

\* values of SystemTime::now() the adapter is exercised with
AdapterNowValues == { TimeAt(<<4, 2>>), TimeBefore(<<5>>) }

(***************************************************************************)
(* State                                                                   *)
(***************************************************************************)
VARIABLES
    journal,      \* [entries, cursor]: the journal and the adapter's cursor
    should_run,   \* the shared AtomicBool
    sigPc,        \* signal listener thread: "wait", "store", "done"
    connPc,       \* connection-event thread: "iter", "check", "done"
    connResult,   \* what run_connection_loop returned: "none", "ok", "err"
    pc,           \* foreground thread (main)
    log_item,     \* the record between try_recv and push
    outcome,      \* what main returned
    lastResult,   \* history: the result of the latest try_recv
    lastRead,     \* history: what the journal did in the latest try_recv
    slept,        \* history: main slept since the latest try_recv
    sinceStop,    \* history: foreground operations begun after the flag was cleared
    delivered,    \* history: positions of the entries try_recv handed out
    pushed,       \* history: the records handed to push
    published,    \* history: the publishes the connection accepted
    connCause,    \* history: why run_connection_loop ended
    sinceConnDone,\* history: foreground operations begun after that thread ended
    recvPc,       \* a caller inside the blocking recv: "idle", "await", "sleep"
    recvResult    \* what the latest recv returned

vars ==
    <<journal, should_run, sigPc, connPc, connResult, pc, log_item, outcome,
      lastResult, lastRead, slept, sinceStop, delivered, pushed, published,
      connCause, sinceConnDone, recvPc, recvResult>>

history == <<lastResult, lastRead, slept, sinceStop, delivered, pushed, published>>

NoItem == [kind |-> "NoItem"]

Unset == [kind |-> "None"]

ExitOk == [kind |-> "Ok"]

ExitErr(e) == [kind |-> "Err", error |-> e]

Running == pc \in {"while", "is_finished", "try_recv", "push", "sleep"}

Stopping == pc = "closing"

Stopped == pc = "exited"

Bump(n) == IF n < CountCap THEN n + 1 ELSE n

\* count a foreground operation that starts when the flag is already cleared
Count(op) ==
    IF should_run THEN sinceStop ELSE [sinceStop EXCEPT ![op] = Bump(@)]

\* the state after the set-up in main, the journal aside
InitMain ==
    /\ should_run = TRUE
    /\ sigPc = "wait"
    /\ connPc = "iter"
    /\ connResult = "none"
    /\ pc = "while"
    /\ log_item = NoItem
    /\ outcome = Unset
    /\ lastResult = Unset
    /\ lastRead = [failed |-> FALSE, index |-> 0]
    /\ slept = FALSE
    /\ sinceStop = [try_recv |-> 0, push |-> 0, sleep |-> 0]
    /\ delivered = <<>>
    /\ pushed = <<>>
    /\ published = <<>>
    /\ connCause = "none"
    /\ sinceConnDone = [try_recv |-> 0, push |-> 0]
    /\ recvPc = "idle"
    /\ recvResult = Unset

\* JournalAdapter::open(open_options(), seek_now()): nothing to read yet
Init ==
    /\ journal = [entries |-> <<>>, cursor |-> 0]
    /\ InitMain

(***************************************************************************)
(* Environment: journald writes an entry                                   *)
(***************************************************************************)
JournalAppend ==
    /\ Len(journal.entries) < MaxEntries
    /\ \E e \in JournalEntries :
          journal' = [journal EXCEPT !.entries = Append(@, e)]
    /\ UNCHANGED <<should_run, sigPc, connPc, connResult, pc, log_item, outcome>>
    /\ UNCHANGED history
    /\ UNCHANGED <<recvPc, recvResult, connCause, sinceConnDone>>

(***************************************************************************)
(* jqtt.rs: the signal listener thread                                     *)
(***************************************************************************)
\* signals.forever().next() returns: SIGINT or SIGTERM was delivered
SignalReceived ==
    /\ ~Stopped
    /\ sigPc = "wait"
    /\ sigPc' = "store"
    /\ UNCHANGED <<journal, should_run, connPc, connResult, pc, log_item, outcome>>
    /\ UNCHANGED history
    /\ UNCHANGED <<recvPc, recvResult, connCause, sinceConnDone>>

\* the listener logging the signal without storing into the flag
SignalStoreKeepsFlag ==
    /\ ~Stopped
    /\ sigPc = "store"
    /\ sigPc' = "done"
    /\ UNCHANGED <<journal, should_run, connPc, connResult, pc, log_item, outcome>>
    /\ UNCHANGED history
    /\ UNCHANGED <<recvPc, recvResult, connCause, sinceConnDone>>

\* should_run_clone.store(false)
SignalStore ==
    /\ ~Stopped
    /\ sigPc = "store"
    /\ should_run' = FALSE
    /\ sigPc' = "done"
    /\ UNCHANGED <<journal, connPc, connResult, pc, log_item, outcome>>
    /\ UNCHANGED history
    /\ UNCHANGED <<recvPc, recvResult, connCause, sinceConnDone>>

(***************************************************************************)
(* jqtt.rs: run_connection_loop                                            *)
(***************************************************************************)
\* the connection loop clearing the flag itself when the stream is over
ConnNotificationClearsFlag ==
    /\ ~Stopped
    /\ connPc = "iter"
    /\ \E n \in {"event", "error", "end"} :
          /\ connPc' = IF n = "event" THEN "check" ELSE "done"
          /\ connResult' = CASE n = "event" -> connResult
                             [] n = "error" -> "err"
                             [] n = "end"   -> "ok"
          /\ connCause' = CASE n = "event" -> connCause
                            [] n = "error" -> "error"
                            [] n = "end"   -> "closed"
          /\ should_run' = IF n = "event" THEN should_run ELSE FALSE
    /\ UNCHANGED <<journal, sigPc, pc, log_item, outcome>>
    /\ UNCHANGED history
    /\ UNCHANGED <<recvPc, recvResult, sinceConnDone>>

\* connection.iter().next(): an event, a connection error (`?` returns it),
\* or the end of the stream
ConnNotification ==
    /\ ~Stopped
    /\ connPc = "iter"
    /\ \E n \in {"event", "error", "end"} :
          /\ connPc' = IF n = "event" THEN "check" ELSE "done"
          /\ connResult' = CASE n = "event" -> connResult
                             [] n = "error" -> "err"
                             [] n = "end"   -> "ok"
          /\ connCause' = CASE n = "event" -> connCause
                            [] n = "error" -> "error"
                            [] n = "end"   -> "closed"
    /\ UNCHANGED <<journal, should_run, sigPc, pc, log_item, outcome>>
    /\ UNCHANGED history
    /\ UNCHANGED <<recvPc, recvResult, sinceConnDone>>

\* the connection loop going back to the wait whatever the flag says
ConnCheckIgnoresFlag ==
    /\ ~Stopped
    /\ connPc = "check"
    /\ connPc' = "iter"
    /\ UNCHANGED <<journal, should_run, sigPc, pc, log_item, outcome>>
    /\ UNCHANGED history
    /\ UNCHANGED <<recvPc, recvResult, sinceConnDone, connResult, connCause>>

\* if !should_run.load() { break }
ConnCheck ==
    /\ ~Stopped
    /\ connPc = "check"
    /\ connPc' = IF should_run THEN "iter" ELSE "done"
    /\ connResult' = IF should_run THEN connResult ELSE "ok"
    /\ connCause' = IF should_run THEN connCause ELSE "flag"
    /\ UNCHANGED <<journal, should_run, sigPc, pc, log_item, outcome>>
    /\ UNCHANGED history
    /\ UNCHANGED <<recvPc, recvResult, sinceConnDone>>

\* conn_loop_handle.is_finished()
is_finished == connPc = "done"

\* count a foreground operation that starts when that thread has finished
CountConn(op) ==
    IF is_finished THEN [sinceConnDone EXCEPT ![op] = Bump(@)] ELSE sinceConnDone

(***************************************************************************)
(* jqtt.rs: the foreground loop of main                                    *)
(***************************************************************************)
\* the loop head as `loop`: the flag is never read
MainWhileIgnoresFlag ==
    /\ pc = "while"
    /\ pc' = "is_finished"
    /\ UNCHANGED <<journal, should_run, sigPc, connPc, connResult, log_item, outcome>>
    /\ UNCHANGED history
    /\ UNCHANGED <<recvPc, recvResult, connCause, sinceConnDone>>

\* while should_run.load()
MainWhile ==
    /\ pc = "while"
    /\ pc' = IF should_run THEN "is_finished" ELSE "closing"
    /\ UNCHANGED <<journal, should_run, sigPc, connPc, connResult, log_item, outcome>>
    /\ UNCHANGED history
    /\ UNCHANGED <<recvPc, recvResult, connCause, sinceConnDone>>

\* the iteration without the finished-check
MainIsFinishedSkipsCheck ==
    /\ pc = "is_finished"
    /\ pc' = "try_recv"
    /\ UNCHANGED <<journal, should_run, sigPc, connPc, connResult, log_item, outcome>>
    /\ UNCHANGED history
    /\ UNCHANGED <<recvPc, recvResult, connCause, sinceConnDone>>

\* if conn_loop_handle.is_finished() { break }
MainIsFinished ==
    /\ pc = "is_finished"
    /\ pc' = IF is_finished THEN "closing" ELSE "try_recv"
    /\ UNCHANGED <<journal, should_run, sigPc, connPc, connResult, log_item, outcome>>
    /\ UNCHANGED history
    /\ UNCHANGED <<recvPc, recvResult, connCause, sinceConnDone>>

\* MainMatch without the Recoverable arm: the entry's failure ends main
MainMatchNoRecoverableArm(r) ==
    CASE r.kind = "Ok" ->
            [pc |-> "push", log_item |-> r.item, outcome |-> Unset]
      [] r.kind = "NotReady" ->
            [pc |-> "sleep", log_item |-> NoItem, outcome |-> Unset]
      [] OTHER ->
            [pc |-> "exited", log_item |-> NoItem, outcome |-> ExitErr(r)]

\* MainMatch logging every error but NotReady and polling on
MainMatchLogsAllErrors(r) ==
    CASE r.kind = "Ok" ->
            [pc |-> "push", log_item |-> r.item, outcome |-> Unset]
      [] r.kind = "NotReady" ->
            [pc |-> "sleep", log_item |-> NoItem, outcome |-> Unset]
      [] OTHER ->
            [pc |-> "while", log_item |-> NoItem, outcome |-> Unset]

\* MainMatch without the sleep in the NotReady arm
MainMatchBusyPoll(r) ==
    CASE r.kind = "Ok" ->
            [pc |-> "push", log_item |-> r.item, outcome |-> Unset]
      [] r.kind \in {"NotReady", "Recoverable"} ->
            [pc |-> "while", log_item |-> NoItem, outcome |-> Unset]
      [] OTHER ->
            [pc |-> "exited", log_item |-> NoItem, outcome |-> ExitErr(r)]

\* MainMatch keeping the record for the next iteration instead of pushing it
MainMatchKeepsRecord(r) ==
    CASE r.kind = "Ok" ->
            [pc |-> "while", log_item |-> r.item, outcome |-> Unset]
      [] r.kind = "NotReady" ->
            [pc |-> "sleep", log_item |-> NoItem, outcome |-> Unset]
      [] r.kind = "Recoverable" ->
            [pc |-> "while", log_item |-> NoItem, outcome |-> Unset]
      [] OTHER ->
            [pc |-> "exited", log_item |-> NoItem, outcome |-> ExitErr(r)]

\* the match on the result of try_recv: where main goes next
MainMatch(r) ==
    CASE r.kind = "Ok" ->
            [pc |-> "push", log_item |-> r.item, outcome |-> Unset]
      [] r.kind = "NotReady" ->
            [pc |-> "sleep", log_item |-> NoItem, outcome |-> Unset]
      [] r.kind = "Recoverable" ->
            [pc |-> "while", log_item |-> NoItem, outcome |-> Unset]
      [] OTHER ->
            [pc |-> "exited", log_item |-> NoItem, outcome |-> ExitErr(r)]

\* match journal.try_recv() { ... }
MainTryRecv ==
    /\ pc = "try_recv"
    /\ \E fails \in BOOLEAN, now \in NowValues :
          \E t \in {try_recv(journal, fails, now)} :
          \E m \in {MainMatch(t.result)} :
              /\ journal' = t.journal
              /\ lastResult' = t.result
              /\ lastRead' = [failed |-> fails, index |-> t.index]
              /\ delivered' = IF t.index > 0 THEN Append(delivered, t.index)
                              ELSE delivered
              /\ pc' = m.pc
              /\ log_item' = m.log_item
              /\ outcome' = m.outcome
    /\ slept' = FALSE
    /\ sinceStop' = Count("try_recv")
    /\ sinceConnDone' = CountConn("try_recv")
    /\ UNCHANGED <<should_run, sigPc, connPc, connResult, pushed, published>>
    /\ UNCHANGED <<recvPc, recvResult, connCause>>

\* client.push(log_item)?
MainPush ==
    /\ pc = "push"
    /\ \E accepted \in BOOLEAN :
          \E p \in {push(base_topic, log_item, accepted)} :
          /\ published' = IF p.ok THEN Append(published, p.publish) ELSE published
          /\ pc' = IF p.ok THEN "while" ELSE "exited"
          /\ outcome' = IF p.ok THEN outcome ELSE ExitErr([kind |-> "ClientError"])
    /\ pushed' = Append(pushed, log_item)
    /\ log_item' = NoItem
    /\ sinceStop' = Count("push")
    /\ sinceConnDone' = CountConn("push")
    /\ UNCHANGED <<journal, should_run, sigPc, connPc, connResult,
                   lastResult, lastRead, slept, delivered>>
    /\ UNCHANGED <<recvPc, recvResult, connCause>>

\* the idle sleep followed at once by the next poll, without the loop's checks
MainSleepThenPolls ==
    /\ pc = "sleep"
    /\ pc' = "try_recv"
    /\ slept' = TRUE
    /\ sinceStop' = Count("sleep")
    /\ UNCHANGED <<journal, should_run, sigPc, connPc, connResult, log_item, outcome,
                   lastResult, lastRead, delivered, pushed, published>>
    /\ UNCHANGED <<recvPc, recvResult, connCause, sinceConnDone>>

\* sleep(Duration::from_millis(100))
MainSleep ==
    /\ pc = "sleep"
    /\ pc' = "while"
    /\ slept' = TRUE
    /\ sinceStop' = Count("sleep")
    /\ UNCHANGED <<journal, should_run, sigPc, connPc, connResult, log_item, outcome,
                   lastResult, lastRead, delivered, pushed, published>>
    /\ UNCHANGED <<recvPc, recvResult, connCause, sinceConnDone>>

\* leaving the loop with a drain: pending entries are still polled
MainClosingDrains ==
    /\ pc = "closing"
    /\ pc' = IF journal.cursor < Len(journal.entries) THEN "try_recv" ELSE "exited"
    /\ outcome' = IF journal.cursor < Len(journal.entries) THEN outcome ELSE ExitOk
    /\ UNCHANGED <<journal, should_run, sigPc, connPc, connResult, log_item>>
    /\ UNCHANGED history
    /\ UNCHANGED <<recvPc, recvResult, connCause, sinceConnDone>>

\* log::info!("Closing"); Ok(())
MainClosing ==
    /\ pc = "closing"
    /\ pc' = "exited"
    /\ outcome' = ExitOk
    /\ UNCHANGED <<journal, should_run, sigPc, connPc, connResult, log_item>>
    /\ UNCHANGED history
    /\ UNCHANGED <<recvPc, recvResult, connCause, sinceConnDone>>

Next ==
    \/ JournalAppend
    \/ SignalReceived
    \/ SignalStore
    \/ ConnNotification
    \/ ConnCheck
    \/ MainWhile
    \/ MainIsFinished
    \/ MainTryRecv
    \/ MainPush
    \/ MainSleep
    \/ MainClosing

Spec == Init /\ [][Next]_vars

\* the steps of the foreground thread
Foreground ==
    \/ MainWhile
    \/ MainIsFinished
    \/ MainTryRecv
    \/ MainPush
    \/ MainSleep
    \/ MainClosing

\* The signal listener, once woken by a signal, and the foreground thread are
\* scheduled fairly; nothing is assumed of the arrival of signals, of the
\* journal or of the connection-event thread, which may stay in the
\* transport's wait for ever.
\* The fairness of the foreground thread is WF_vars(Foreground) with
\* ENABLED <<Foreground>>_vars written out: at every position short of the
\* exit the thread has a step, and each of its steps changes pc.
SpecFair ==
    /\ Init /\ [][Next]_vars
    /\ WF_vars(SignalStore)
    /\ ([]<>Stopped \/ []<><<Foreground>>_vars)

(***************************************************************************)
(* Steps of the foreground thread, as seen in a pair of states             *)
(***************************************************************************)
TryRecvStep == pc = "try_recv" /\ pc' # "try_recv"

PushStep == pc = "push" /\ pc' # "push"

SleepStep == pc = "sleep" /\ pc' # "sleep"

\* the entry at position i maps to a record
Mappable(i) == entry_to_log_item(journal.entries[i], TimeAt(<<0>>)).ok

(***************************************************************************)
(* Properties of the foreground loop                                       *)
(***************************************************************************)
\* C1: a try_recv that returns Recoverable leaves the loop Running, with no
\* sleep, no push and no record kept for that entry, and main is back at the
\* loop head, from where the flag check and the connection check lead to the
\* next try_recv; the process is not aborted.
RecoverableKeepsPolling ==
    [][ /\ (TryRecvStep /\ lastResult'.kind = "Recoverable")
            => /\ pc' = "while"
               /\ outcome' = Unset
               /\ log_item' = NoItem
               /\ pushed' = pushed
               /\ published' = published
               /\ slept' = FALSE
               /\ sinceStop'.sleep = sinceStop.sleep
        /\ (pc = "while" /\ pc' # pc)
            => pc' = IF should_run THEN "is_finished" ELSE "closing"
        /\ (pc = "is_finished" /\ pc' # pc)
            => pc' = IF is_finished THEN "closing" ELSE "try_recv"
      ]_vars

\* two entries in a row failed to map and main is about to poll again
TwoRecoverablesThenPoll ==
    /\ journal.cursor = 2
    /\ ~Mappable(1) /\ ~Mappable(2)
    /\ lastResult.kind = "Recoverable"
    /\ pushed = <<>>
    /\ pc = "try_recv"

\* C2: a try_recv that returns Fatal or Closed, and a push that returns an
\* error, end main at once with that error: the outcome is an error, and
\* nothing is polled or pushed afterwards.
AbortOnFatalOrPushError ==
    [][ /\ (TryRecvStep /\ lastResult'.kind \in {"Fatal", "Closed"})
            => /\ pc' = "exited"
               /\ outcome' = ExitErr(lastResult')
        /\ (PushStep /\ published' = published)
            => /\ pc' = "exited"
               /\ outcome'.kind = "Err"
               /\ outcome'.error.kind = "ClientError"
        /\ Stopped
            => /\ UNCHANGED <<pc, outcome, delivered, pushed, published, lastResult>>
               /\ journal'.cursor = journal.cursor
        /\ \A r \in {Closed, Fatal([text |-> "read", value |-> <<>>], None)} :
               /\ MainMatch(r).pc = "exited"
               /\ MainMatch(r).outcome = ExitErr(r)
      ]_vars

\* main ended with the Fatal error of try_recv while an entry was pending
AbortedOnFatal ==
    /\ Stopped
    /\ lastResult.kind = "Fatal"
    /\ outcome = ExitErr(lastResult)
    /\ journal.cursor < Len(journal.entries)
    /\ Len(published) > 0

\* C3: main returns Ok only when a signal was received and cleared the
\* flag; an ending on Fatal, Closed or a publish failure returns an error.
ZeroExitOnlyOnSignal ==
    /\ outcome = ExitOk => (sigPc = "done" /\ ~should_run)
    /\ (Stopped /\ lastResult.kind \in {"Fatal", "Closed"}) => outcome.kind = "Err"

\* C4: once the flag is cleared the foreground loop performs at most one
\* more try_recv, at most one more push and at most one more sleep.
ShutdownWithinOneIteration ==
    /\ sinceStop.try_recv <= 1
    /\ sinceStop.push <= 1
    /\ sinceStop.sleep <= 1

\* the flag was cleared after the loop head read it: one more try_recv and
\* one more push, then the normal exit
OneMorePollAndPush ==
    /\ Stopped
    /\ outcome = ExitOk
    /\ sinceStop.try_recv = 1
    /\ sinceStop.push = 1

\* the connection-event thread has finished and main is asleep, at the loop
\* head or already past the poll of this iteration
ConnDoneSeen ==
    /\ is_finished
    /\ pc \in {"sleep", "while", "is_finished", "closing", "exited"}

\* C5: when the connection-event thread has finished while main sleeps or
\* before an iteration begins, main leaves the loop without another try_recv
\* or push.
ConnDoneEndsLoop ==
    [][ ConnDoneSeen
            => /\ ConnDoneSeen'
               /\ journal'.cursor = journal.cursor
               /\ UNCHANGED <<lastResult, delivered, pushed, published>>
      ]_vars

\* main slept, found the thread finished and left the loop; no signal came
LeftLoopAfterSleep ==
    /\ pc = "closing"
    /\ is_finished
    /\ should_run
    /\ slept

\* C6: once main has left Running it never polls or pushes again, there is
\* no drain of pending entries, and Running is not re-entered.
NoPollAfterLoopExit ==
    [][ ~Running
            => /\ ~Running'
               /\ Stopped => Stopped'
               /\ journal'.cursor = journal.cursor
               /\ UNCHANGED <<lastResult, delivered, pushed, published, log_item>>
      ]_vars

\* main returned Ok while an entry was still unread
ExitedWithPendingEntry ==
    /\ Stopped
    /\ outcome = ExitOk
    /\ journal.cursor < Len(journal.entries)

\* C7: between two try_recv that both return NotReady main sleeps, and main
\* sleeps only after a NotReady result: not after a record or a Recoverable,
\* and not in push.
IdleSleepOnlyOnNotReady ==
    [][ /\ (TryRecvStep /\ lastResult.kind = "NotReady"
                /\ lastResult'.kind = "NotReady") => slept
        /\ SleepStep => lastResult.kind = "NotReady"
        /\ (slept' /\ ~slept) => SleepStep
        /\ (pc' = "sleep" /\ pc # "sleep")
            => (TryRecvStep /\ lastResult'.kind = "NotReady")
      ]_vars

\* NotReady, the sleep, and main is about to poll the still empty journal
SleptBeforeNextPoll ==
    /\ pc = "try_recv"
    /\ lastResult.kind = "NotReady"
    /\ slept
    /\ journal.cursor = Len(journal.entries)

RECURSIVE MappedUpTo(_)
\* the positions, in order, of the entries up to n that map to a record
MappedUpTo(n) ==
    IF n = 0 THEN <<>>
    ELSE IF Mappable(n) THEN Append(MappedUpTo(n - 1), n) ELSE MappedUpTo(n - 1)

\* the records main has handed to push or is about to
Handed == IF pc = "push" THEN Append(pushed, log_item) ELSE pushed

\* C8: the records handed to push are, in journal order, the records of the
\* entries read so far that mapped: each is pushed once, before the next
\* try_recv, in a publish of its own, and none is kept afterwards.
PushedInSourceOrder ==
    LET mapped == MappedUpTo(journal.cursor)
        handed == Handed
    IN  /\ Len(handed) = Len(mapped)
        /\ \A k \in 1..Len(handed) :
              \E now \in NowValues :
                 handed[k] = entry_to_log_item(journal.entries[mapped[k]], now).item
        /\ pc # "push" => log_item = NoItem
        /\ Len(published) \in {Len(pushed), Len(pushed) - 1}
        /\ Len(published) < Len(pushed) => (Stopped /\ outcome.kind = "Err")
        /\ \A k \in 1..Len(published) :
              published[k] = push(base_topic, pushed[k], TRUE).publish

\* two records published and one entry dropped in between or around them
TwoPublishedOneDropped ==
    /\ journal.cursor = 3
    /\ Len(pushed) = 2
    /\ Len(published) = 2
    /\ pc = "while"

(***************************************************************************)
(* Properties of the journal adapter                                       *)
(***************************************************************************)
\* C9: the cursor never moves back and moves by one entry per try_recv that
\* finds one: NotReady leaves it where it is, a record or a Recoverable moves
\* it past the entry handed out, and the entries handed out are 1, 2, 3, ...
\* each once.
CursorAdvancesByOne ==
    [][ /\ journal'.cursor \in {journal.cursor, journal.cursor + 1}
        /\ (TryRecvStep /\ lastResult'.kind = "NotReady")
            => (journal'.cursor = journal.cursor /\ delivered' = delivered)
        /\ (TryRecvStep /\ lastResult'.kind \in {"Ok", "Recoverable"})
            => /\ journal'.cursor = journal.cursor + 1
               /\ delivered' = Append(delivered, journal.cursor + 1)
        /\ delivered' = [i \in 1..journal'.cursor |-> i]
      ]_vars

\* the first entry failed to map and the next try_recv returned the second
RecordAfterDroppedEntry ==
    /\ delivered = <<1, 2>>
    /\ ~Mappable(1)
    /\ lastResult.kind = "Ok"
    /\ pc = "push"

(***************************************************************************)
(* The adapter on its own: try_recv on a journal that holds one entry of   *)
(* RawEntries                                                              *)
(***************************************************************************)
InitAdapter ==
    /\ \E es \in {<<>>} \cup {<<e>> : e \in RawEntries} :
          journal = [entries |-> es, cursor |-> 0]
    /\ InitMain

\* journald writes the entry after the adapter was opened
AdapterAppend ==
    /\ Len(journal.entries) = 0
    /\ \E e \in RawEntries : journal' = [journal EXCEPT !.entries = <<e>>]
    /\ UNCHANGED <<should_run, sigPc, connPc, connResult, pc, log_item, outcome>>
    /\ UNCHANGED history
    /\ UNCHANGED <<connCause, sinceConnDone, recvPc, recvResult>>

AdapterTryRecv ==
    /\ recvPc = "idle"
    /\ \E fails \in BOOLEAN, now \in AdapterNowValues :
          \E t \in {try_recv(journal, fails, now)} :
              /\ journal' = t.journal
              /\ lastResult' = t.result
              /\ lastRead' = [failed |-> fails, index |-> t.index]
              /\ delivered' = IF t.index > 0 THEN Append(delivered, t.index)
                              ELSE delivered
    /\ UNCHANGED <<should_run, sigPc, connPc, connResult, pc, log_item, outcome,
                   slept, sinceStop, pushed, published>>
    /\ UNCHANGED <<connCause, sinceConnDone, recvPc, recvResult>>

\* a caller enters JournalAdapter::recv
AdapterRecvCall ==
    /\ recvPc = "idle"
    /\ recvPc' = "await"
    /\ recvResult' = Unset
    /\ slept' = FALSE
    /\ UNCHANGED <<journal, should_run, sigPc, connPc, connResult, pc, log_item,
                   outcome, lastResult, lastRead, sinceStop, delivered, pushed,
                   published, connCause, sinceConnDone>>

\* match self.journal.await_next_entry(None) { ... }
AdapterRecvAwait ==
    /\ recvPc = "await"
    /\ \E fails \in BOOLEAN, now \in AdapterNowValues :
          \E n \in {await_next_entry(journal, fails)} :
          \E m \in {RecvMatch(n, now)} :
              /\ journal' = n.journal
              /\ delivered' = IF n.index > 0 THEN Append(delivered, n.index)
                              ELSE delivered
              /\ recvPc' = m.pc
              /\ recvResult' = m.result
    /\ UNCHANGED <<should_run, sigPc, connPc, connResult, pc, log_item, outcome,
                   lastResult, lastRead, slept, sinceStop, pushed, published, connCause,
                   sinceConnDone>>

\* sleep(Duration::from_millis(10)) and round the loop
AdapterRecvSleep ==
    /\ recvPc = "sleep"
    /\ recvPc' = "await"
    /\ slept' = TRUE
    /\ UNCHANGED <<journal, should_run, sigPc, connPc, connResult, pc, log_item,
                   outcome, lastResult, lastRead, sinceStop, delivered, pushed,
                   published, connCause, sinceConnDone, recvResult>>

\* the caller hands the record it received to LogqttClient::push
AdapterPush ==
    /\ recvPc = "idle"
    /\ Len(pushed) = 0
    /\ \E r \in {lastResult, recvResult}, accepted \in BOOLEAN :
          /\ r.kind = "Ok"
          /\ \E p \in {push(base_topic, r.item, accepted)} :
                published' = IF p.ok THEN Append(published, p.publish) ELSE published
          /\ pushed' = Append(pushed, r.item)
    /\ UNCHANGED <<journal, should_run, sigPc, connPc, connResult, pc, log_item,
                   outcome, lastResult, lastRead, slept, sinceStop, delivered,
                   connCause, sinceConnDone, recvPc, recvResult>>

NextAdapter ==
    \/ AdapterAppend
    \/ AdapterTryRecv
    \/ AdapterRecvCall
    \/ AdapterRecvAwait
    \/ AdapterRecvSleep
    \/ AdapterPush

SpecAdapter == InitAdapter /\ [][NextAdapter]_vars

(***************************************************************************)
(* entry_to_log_item on pairs handed out in any order.  The for loop takes *)
(* the pairs as the record's iterator yields them; here the iterator may   *)
(* yield them in every order.                                              *)
(***************************************************************************)
\* the entries whose pairs are reordered
VisitEntries ==
    { Entry(m, p, h, x, t, u) :
        m \in Opt({"disk full"}),
        p \in Opt({ <<"3">>, <<"0", "3">>, <<"8">>, <<"x">> }),
        h \in Opt({"host1"}), x \in Opt({"4711"}),
        t \in Opt({ ScenarioTimestamp, <<"1", "2", "u", "s">> }),
        u \in Opt({"diskd.service"}) }

\* the pairs of e in the order given by the permutation perm of its positions
Reordered(e, perm) == [i \in 1..Len(e) |-> e[perm[i]]]

VisitOrders ==
    UNION { { Reordered(e, perm) : perm \in Permutations(1..Len(e)) } :
            e \in VisitEntries }

InitVisit ==
    /\ \E v \in VisitOrders : journal = [entries |-> <<v>>, cursor |-> 0]
    /\ InitMain

NextVisit == AdapterTryRecv

SpecVisit == InitVisit /\ [][NextVisit]_vars

\* the raw entry has a pair with key k
Has(e, k) == \E i \in 1..Len(e) : e[i][1] = k

\* the value of key k in the raw entry
Field(e, k) == e[CHOOSE i \in 1..Len(e) : e[i][1] = k][2]

\* the text is a decimal numeral of an integer in 0..7
DenotesPriority(v) ==
    \E sign \in {<<>>, <<"+">>} :
    \E zeros \in 0..Len(v) :
    \E last \in {"0", "1", "2", "3", "4", "5", "6", "7"} :
       v = sign \o [i \in 1..zeros |-> "0"] \o <<last>>

HasValidPriority(e) == Has(e, "PRIORITY") /\ DenotesPriority(Field(e, "PRIORITY"))

\* the entry the latest try_recv read
EntryRead == journal.entries[lastRead.index]

\* C10: an entry without hostname, without message or without a valid
\* priority maps to Recoverable, never to a record and never to Fatal; a
\* record carries the entry's own hostname and message and a level; try_recv
\* returns a record, NotReady, Recoverable or Fatal, and Fatal exactly when
\* the read of the journal failed.
MappingFailureIsRecoverable ==
    /\ lastResult.kind \in {"None", "Ok", "NotReady", "Recoverable", "Fatal"}
    /\ lastResult.kind = "Fatal" <=> lastRead.failed
    /\ lastRead.index > 0 =>
          /\ (~Has(EntryRead, "_HOSTNAME") \/ ~Has(EntryRead, "MESSAGE")
                 \/ ~HasValidPriority(EntryRead))
                => lastResult.kind = "Recoverable"
          /\ lastResult.kind \in {"Ok", "Recoverable"}
          /\ lastResult.kind = "Ok" =>
                /\ lastResult.item.hostname = Field(EntryRead, "_HOSTNAME")
                /\ lastResult.item.message = Field(EntryRead, "MESSAGE")
                /\ lastResult.item.level \in LogLevel

\* an entry with message and priority but no hostname came back Recoverable
NoHostnameDropped ==
    /\ lastRead.index = 1
    /\ ~Has(EntryRead, "_HOSTNAME")
    /\ Has(EntryRead, "MESSAGE")
    /\ HasValidPriority(EntryRead)
    /\ lastResult.kind = "Recoverable"

\* the severities in the order of their rank, 0 first
RankedLevels ==
    <<"Emergency", "Alert", "Critical", "Error", "Warning", "Notice", "Info", "Debug">>

\* the integer in 0..7 that the priority text denotes
DenotedPriority(v) ==
    CHOOSE n \in 0..7 :
       \E sign \in {<<>>, <<"+">>} :
       \E zeros \in 0..Len(v) :
          v = sign \o [i \in 1..zeros |-> "0"] \o <<DigitChars[n + 1]>>

\* C11: the priorities 0..7 map one-to-one onto Emergency..Debug in that
\* order, and an entry whose priority is anything else (out of range,
\* negative, not a number) fails with Recoverable instead of getting a level.
PriorityIsOrdinal ==
    /\ \A n \in 0..7 :
          SliceGet(systemd_priority_rankings, NatDigits(n)) = Some(RankedLevels[n + 1])
    /\ \A m, n \in 0..7 : m # n => RankedLevels[m + 1] # RankedLevels[n + 1]
    /\ {RankedLevels[n + 1] : n \in 0..7} = LogLevel
    /\ (lastRead.index > 0 /\ Has(EntryRead, "PRIORITY")) =>
          /\ ~DenotesPriority(Field(EntryRead, "PRIORITY"))
                => lastResult.kind = "Recoverable"
          /\ lastResult.kind = "Ok" =>
                lastResult.item.level =
                    RankedLevels[DenotedPriority(Field(EntryRead, "PRIORITY")) + 1]

\* priority 7 gave Debug
PrioritySevenIsDebug ==
    /\ lastRead.index = 1
    /\ Has(EntryRead, "PRIORITY")
    /\ Field(EntryRead, "PRIORITY") = <<"7">>
    /\ lastResult.kind = "Ok"
    /\ lastResult.item.level = "Debug"

\* the lowercase English names of the severities, in the order of their rank
LowercaseNames ==
    <<"emergency", "alert", "critical", "error", "warning", "notice", "info", "debug">>

NameOf(level) == LowercaseNames[CHOOSE n \in 1..8 : RankedLevels[n] = level]

\* a count of microseconds written as decimal digits
IsCount(digits) == Len(digits) > 0 /\ \A i \in 1..Len(digits) : digits[i] \in 0..9

\* C12: push publishes on base_topic/hostname/unit/level_name, level_name the
\* lowercase name of the record's level (eight names, distinct for distinct
\* levels), a payload of exactly message and timestamp (whole microseconds
\* since the epoch), at-least-once and not retained; the entry "disk full"
\* of host1, diskd.service, priority 3, stamped 1700000000000000 goes to
\* "logqttv1/host1/diskd.service/error" with timestamp 1700000000000000.
TopicAndPayload ==
    /\ \A l \in LogLevel : as_ref(l) = NameOf(l)
    /\ \A a, b \in LogLevel : a # b => as_ref(a) # as_ref(b)
    /\ \A k \in 1..Len(published) :
          /\ published[k].topic =
                base_topic \o "/" \o pushed[k].hostname \o "/" \o pushed[k].unit
                    \o "/" \o NameOf(pushed[k].level)
          /\ DOMAIN published[k].payload = {"message", "timestamp"}
          /\ published[k].payload.message = pushed[k].message
          /\ IsCount(published[k].payload.timestamp)
          /\ ~pushed[k].timestamp.before_epoch
                => published[k].payload.timestamp = pushed[k].timestamp.micros
          /\ published[k].qos = "AtLeastOnce"
          /\ ~published[k].retain
    /\ (journal.entries = <<ScenarioEntry>> /\ Len(published) = 1) =>
          /\ published[1].topic = "logqttv1/host1/diskd.service/error"
          /\ published[1].payload.message = "disk full"
          /\ published[1].payload.timestamp =
                <<1, 7, 0, 0, 0, 0, 0, 0, 0, 0, 0, 0, 0, 0, 0, 0>>

\* the scenario entry was received and published
ScenarioPublished ==
    /\ journal.entries = <<ScenarioEntry>>
    /\ Len(published) = 1
    /\ published[1].topic = "logqttv1/host1/diskd.service/error"

\* C13: a record dated before the epoch is published like any other, push
\* failing only when the connection refuses the request, and its payload
\* timestamp is 0; no payload timestamp is negative.
PreEpochPublishesZero ==
    /\ \A k \in 1..Len(pushed) :
          \A accepted \in BOOLEAN :
             /\ push(base_topic, pushed[k], accepted).ok = accepted
             /\ IsCount(push(base_topic, pushed[k], accepted).publish.payload.timestamp)
    /\ \A k \in 1..Len(published) :
          /\ IsCount(published[k].payload.timestamp)
          /\ pushed[k].timestamp.before_epoch
                => published[k].payload.timestamp = <<0>>

\* a record dated before the epoch was published with timestamp 0
PreEpochPublished ==
    /\ Len(published) = 1
    /\ pushed[1].timestamp.before_epoch
    /\ published[1].payload.timestamp = <<0>>

\* recv leaves its wait for the next entry
RecvStep == recvPc = "await" /\ recvPc' # "await"

\* C14: recv never returns a not-ready status: when the journal has no entry
\* yet it sleeps and tries again without returning; it returns only a record,
\* a Recoverable for the entry it has just consumed and could not map, or a
\* Fatal for a failed read, so on an empty journal it returns only on failure.
RecvBlocksUntilEntry ==
    [][ /\ recvResult'.kind \in {"None", "Ok", "Recoverable", "Fatal"}
        /\ recvPc = "sleep" => recvPc' \in {"sleep", "await"} /\ recvResult' = Unset
        /\ (RecvStep /\ journal.cursor = Len(journal.entries)) =>
              \/ recvPc' = "sleep" /\ recvResult' = Unset /\ journal' = journal
              \/ recvPc' = "idle" /\ recvResult'.kind = "Fatal" /\ journal' = journal
        /\ (RecvStep /\ journal.cursor < Len(journal.entries)) =>
              /\ recvPc' = "idle"
              /\ recvResult'.kind \in {"Ok", "Recoverable", "Fatal"}
              /\ recvResult'.kind = "Fatal" => journal' = journal
              /\ recvResult'.kind \in {"Ok", "Recoverable"} =>
                    /\ journal'.cursor = journal.cursor + 1
                    /\ recvResult'.kind = "Ok" <=> Mappable(journal'.cursor)
      ]_vars

\* recv slept on the empty journal and returned the record written later
RecvSleptThenReturned ==
    /\ recvPc = "idle"
    /\ slept
    /\ recvResult.kind = "Ok"
    /\ journal.cursor = 1

\* the entry has hostname, message and a valid priority
HasRequiredFields(e) ==
    Has(e, "_HOSTNAME") /\ Has(e, "MESSAGE") /\ HasValidPriority(e)

\* the text is a decimal numeral of a count of microseconds that fits 64 bits
DenotesMicros(v) ==
    /\ \E sign \in {<<>>, <<"+">>} :
       \E n \in 1..Len(v) :
          /\ Len(v) = Len(sign) + n
          /\ \A i \in 1..Len(sign) : v[i] = sign[i]
          /\ \A i \in (Len(sign) + 1)..Len(v) : IsDigit(v[i])
    /\ ParseUnsigned(v).ok

\* the record's unit is the entry's own
UnitKept ==
    (lastRead.index > 0 /\ lastResult.kind = "Ok" /\ Has(EntryRead, "_SYSTEMD_UNIT"))
        => lastResult.item.unit = Field(EntryRead, "_SYSTEMD_UNIT")

\* C15 as stated: every entry with hostname, message and a valid priority
\* but no unit maps to a record, whose unit is "unknown"; a unit that is
\* present is kept unchanged.
UnitDefaultsForEveryEntry ==
    /\ (lastRead.index > 0 /\ HasRequiredFields(EntryRead)
           /\ ~Has(EntryRead, "_SYSTEMD_UNIT"))
        => (lastResult.kind = "Ok" /\ lastResult.item.unit = "unknown")
    /\ UnitKept

\* C15, amended: every entry with hostname, message and a valid priority, no
\* unit, and whose source timestamp, if it has one, is a well-formed count of
\* microseconds, maps to a record whose unit is "unknown"; an entry without
\* unit never maps to a record with another unit; a unit that is present is
\* kept unchanged.
UnitDefaultsToUnknown ==
    /\ (lastRead.index > 0 /\ HasRequiredFields(EntryRead)
           /\ ~Has(EntryRead, "_SYSTEMD_UNIT")
           /\ (Has(EntryRead, "_SOURCE_REALTIME_TIMESTAMP")
                  => DenotesMicros(Field(EntryRead, "_SOURCE_REALTIME_TIMESTAMP"))))
        => (lastResult.kind = "Ok" /\ lastResult.item.unit = "unknown")
    /\ (lastRead.index > 0 /\ lastResult.kind = "Ok"
           /\ ~Has(EntryRead, "_SYSTEMD_UNIT"))
        => lastResult.item.unit = "unknown"
    /\ UnitKept

\* an entry without unit and without timestamp became a record of unit "unknown"
UnitlessMapped ==
    /\ lastRead.index = 1
    /\ HasRequiredFields(EntryRead)
    /\ ~Has(EntryRead, "_SYSTEMD_UNIT")
    /\ ~Has(EntryRead, "_SOURCE_REALTIME_TIMESTAMP")
    /\ lastResult.kind = "Ok"
    /\ lastResult.item.unit = "unknown"

\* C16 as stated: the connection-event thread ends only because the event
\* stream closed or yielded a connection error, never because the shutdown
\* flag was set.
ConnEndsOnlyOnStream ==
    connPc = "done" => connCause \in {"closed", "error"}

\* C16, amended: clearing the flag does not move the connection-event thread,
\* and the thread leaves the transport's event wait only when the stream
\* delivers an event, closes or yields a connection error; it ends when the
\* stream closes or errors, or, having handled an event, when it then finds
\* the flag cleared; with the flag still set it goes back to the wait.
ConnEndsOnStreamOrFlagAfterEvent ==
    [][ /\ should_run' # should_run => connPc' = connPc
        /\ (connPc = "iter" /\ connPc' # "iter") =>
              \/ connPc' = "check"
              \/ connPc' = "done" /\ connCause' \in {"closed", "error"}
        /\ (connPc = "check" /\ connPc' # "check") =>
              IF should_run THEN connPc' = "iter"
              ELSE connPc' = "done" /\ connCause' = "flag"
        /\ connPc = "done" => connPc' = "done" /\ connCause' = connCause
      ]_vars

\* the thread handled an event, found the flag cleared and ended
ConnEndedOnFlag ==
    /\ connPc = "done"
    /\ connCause = "flag"
    /\ ~should_run
    /\ connResult = "ok"

\* C17: once a signal has been received the process exits, whatever the
\* connection-event thread does, even if it stays blocked in the transport's
\* wait for ever: the exit does not wait for that thread.
SignalLeadsToExit == (sigPc # "wait") ~> Stopped

\* the process exited cleanly on a signal with the connection-event thread
\* still blocked in its wait
ExitedWhileConnBlocked ==
    /\ Stopped
    /\ outcome = ExitOk
    /\ sigPc = "done"
    /\ ~should_run
    /\ connPc = "iter"

\* C18: the flag starts set (running) and is cleared once, by the signal
\* listener's store after a signal, never set again; the foreground thread
\* and the connection-event thread never write it, and no thread writes the
\* state of another.
FlagWrittenOnceByListener ==
    /\ [](should_run <=> sigPc # "done")
    /\ [][ /\ should_run' # should_run =>
                 (should_run /\ ~should_run' /\ sigPc = "store" /\ sigPc' = "done")
           /\ ~should_run => ~should_run'
           /\ pc' # pc =>
                 UNCHANGED <<should_run, sigPc, connPc, connResult, connCause>>
           /\ connPc' # connPc =>
                 UNCHANGED <<should_run, sigPc, pc, log_item, outcome, journal>>
           /\ sigPc' # sigPc =>
                 UNCHANGED <<connPc, connResult, connCause, pc, log_item, outcome,
                             journal>>
         ]_vars

\* the flag is cleared while the other two threads are both still running
FlagClearedOthersRunning ==
    /\ ~should_run
    /\ sigPc = "done"
    /\ connPc = "check"
    /\ pc = "try_recv"

\* C19: the connection-event thread can finish after the finished-check of
\* an iteration; from then on the foreground loop polls at most once more and
\* pushes at most once more, and having done so it is aborting on that push,
\* or on its way to the next finished-check, which ends the loop.
AtMostOneIterationAfterConnDone ==
    /\ sinceConnDone.try_recv <= 1
    /\ sinceConnDone.push <= 1
    /\ (is_finished /\ sinceConnDone.try_recv = 1) => pc # "try_recv"
    /\ (is_finished /\ sinceConnDone.push = 1) => pc \notin {"try_recv", "push"}

\* the thread finished between the check and the poll: one poll and one
\* push followed, and the loop was left at the next check
PolledAndPushedAfterConnDone ==
    /\ sinceConnDone.try_recv = 1
    /\ sinceConnDone.push = 1
    /\ should_run
    /\ pc = "closing"

\* the value of key k in e, if e has the key
Lookup(e, k) == IF Has(e, k) THEN Some(Field(e, k)) ELSE None

\* the pairs of e in the order of their keys
SortedByKey(e) ==
    Entry(Lookup(e, "MESSAGE"), Lookup(e, "PRIORITY"), Lookup(e, "_HOSTNAME"),
          Lookup(e, "_PID"), Lookup(e, "_SOURCE_REALTIME_TIMESTAMP"),
          Lookup(e, "_SYSTEMD_UNIT"))

\* the pairs of e under the five keys the mapping recognizes, in key order
RecognizedOnly(e) ==
    Entry(Lookup(e, "MESSAGE"), Lookup(e, "PRIORITY"), Lookup(e, "_HOSTNAME"),
          None, Lookup(e, "_SOURCE_REALTIME_TIMESTAMP"), Lookup(e, "_SYSTEMD_UNIT"))

\* what the claim compares: the record's four fields, or the failure
Outcome(r) ==
    IF r.kind = "Ok"
    THEN [kind |-> "Ok", hostname |-> r.item.hostname, unit |-> r.item.unit,
          level |-> r.item.level, message |-> r.item.message]
    ELSE [kind |-> r.kind]

OutcomeOf(e) == Outcome(MapResult(entry_to_log_item(e, TimeAt(<<0>>))))

\* C20: whatever the order in which the pairs of an entry are visited, the
\* mapping gives the record (hostname, unit, level, message) or the
\* Recoverable failure that it gives for the pairs in key order, and that it
\* gives for the entry without its unrecognized keys.
OrderAndUnknownKeysIrrelevant ==
    lastRead.index > 0 =>
        /\ lastResult.kind \in {"Ok", "Recoverable"}
        /\ Outcome(lastResult) = OutcomeOf(SortedByKey(EntryRead))
        /\ Outcome(lastResult) = OutcomeOf(RecognizedOnly(EntryRead))

\* a record came from pairs visited out of key order, an unrecognized key
\* among them
MappedOutOfKeyOrder ==
    /\ lastRead.index = 1
    /\ EntryRead # SortedByKey(EntryRead)
    /\ EntryRead[1][1] = "_PID"
    /\ lastResult.kind = "Ok"

====
